---- MODULE Spec2Model ----
(***************************************************************************)
(* folly::coro::Socket (folly/io/coro/Socket.cpp): the coroutine adapter   *)
(* over AsyncSocket.  One caller coroutine issues connect / read / write   *)
(* calls one at a time; the reactor (EventBase) delivers transport events, *)
(* timer expiry and the cancellation observer between the suspension of a  *)
(* call and its resumption.  A call runs atomically from its entry to its  *)
(* suspension point and from its resumption to its co_return / co_yield    *)
(* (single reactor thread); the resumption of a posted baton is a separate *)
(* reactor step, so further events can reach a callback that is still      *)
(* registered after it has posted.                                         *)
(***************************************************************************)
EXTENDS Integers, FiniteSets, Sequences, TLC

\* ---- bounds -------------------------------------------------------------
MaxBuf == 2        \* largest fixed read buffer (buf.size())
MaxChunk == 2      \* largest byte count of one readDataAvailable
MaxLen == 3        \* cap on the bytes accumulated by one growing-buffer read
MaxWrite == 2      \* largest write buffer
MaxTimeout == 1    \* largest timeout in ms; 0 means no timeout

VARIABLES
  pc,                \* "idle" | "waiting" (suspended on the baton) | "done"
  op,                \* the operation of the current call
  args,              \* its arguments: [size, timeout, info]
  connected,         \* a Socket value has been returned by connect
  deferredReadEOF_,  \* Socket::deferredReadEOF_
  cancelRequested,   \* cancelToken.isCancellationRequested()
  cb,                \* the callback object of the current call
  socket_,           \* the AsyncSocket: registrations held by the transport
  result,            \* outcome of the call: [kind, err, n]
  writeInfo,         \* WriteInfo::bytesWritten of the caller's out-parameter
  obs,               \* what happened during the current call (history)
  lastRead           \* history of the most recently finished read

vars == <<pc, op, args, connected, deferredReadEOF_, cancelRequested, cb,
          socket_, result, writeInfo, obs, lastRead>>

ReadOps == {"read", "readQ"}
WriteOps == {"write", "writeQ"}

Min(a, b) == IF a < b THEN a ELSE b

\* ---- values -------------------------------------------------------------
NoResult == [kind |-> "none", err |-> "none", n |-> 0]
Cancelled == [kind |-> "cancelled", err |-> "none", n |-> 0]
Failure(e) == [kind |-> "error", err |-> e, n |-> 0]
Bytes(k) == [kind |-> "bytes", err |-> "none", n |-> k]
SocketValue == [kind |-> "socket", err |-> "none", n |-> 0]
UnitValue == [kind |-> "unit", err |-> "none", n |-> 0]

\* CallbackBase + ConnectCallback / ReadCallback / WriteCallback members.
\* buf_ is buf_.size(); readBuf_ is TRUE for the IOBufQueue form;
\* isScheduled is the HHWheelTimer::Callback part of a ReadCallback.
NewCallback ==
  [baton_ |-> FALSE, error_ |-> "none", length |-> 0, eof |-> FALSE,
   buf_ |-> 0, readBuf_ |-> FALSE, isScheduled |-> FALSE,
   bytesWritten |-> 0, error |-> "none"]

\* AsyncSocket::newSocket(evb): nothing registered.  atEOF: the peer's
\* end-of-stream has been seen by the transport.
NewSocket ==
  [readCallback_ |-> "null", connectCallback_ |-> FALSE,
   writeCallback |-> FALSE, closed |-> FALSE, atEOF |-> FALSE]

NewObs ==
  [posts |-> 0, cancels |-> 0, regs |-> 0, arms |-> 0, issues |-> 0,
   suspended |-> FALSE, preCancel |-> FALSE, shortCircuit |-> FALSE,
   delivered |-> 0, dataEof |-> 0, eofAtZero |-> FALSE,
   firedAtZero |-> FALSE, firedWithData |-> FALSE, readErr |-> FALSE,
   connEv |-> "none", failed |-> FALSE, failK |-> 0, observerFired |-> FALSE]

NoLastRead == [dataEof |-> 0, clean |-> FALSE, filled |-> FALSE,
               eofAtZero |-> FALSE, kind |-> "none", bytes |-> 0,
               eof |-> FALSE, short |-> FALSE]

\* The callback, the socket and the history of the call as one value, so
\* that handlers compose.
World == [cb |-> cb, sk |-> socket_, obs |-> obs]

Apply(w) ==
  /\ cb' = w.cb
  /\ socket_' = w.sk
  /\ obs' = w.obs

\* ---- CallbackBase ---------------------------------------------------------
post(w) == [w EXCEPT !.cb.baton_ = TRUE, !.obs.posts = @ + 1]

setReadCB(w, v) == [w EXCEPT !.sk.readCallback_ = v]

cancelTimeout(w) == [w EXCEPT !.cb.isScheduled = FALSE]

\* ---- ReadCallback ---------------------------------------------------------
\* The constructors: the timer is armed when timeout.count() > 0.
ReadCallbackCtor(w, size, growing, timeout) ==
  [w EXCEPT !.cb = [NewCallback EXCEPT !.buf_ = size, !.readBuf_ = growing,
                                       !.isScheduled = (timeout > 0)],
            !.obs.arms = @ + (IF timeout > 0 THEN 1 ELSE 0)]

\* getReadBuffer: the length of the window offered to the transport.
getReadBuffer(c) == IF c.readBuf_ THEN MaxChunk ELSE c.buf_ - c.length

\* readDataAvailable that never uninstalls the callback.
readDataAvailable_NoUninstall(w, len) ==
  post([w EXCEPT !.cb.length = @ + len])

readDataAvailable(w, len) ==
  LET w1 == [w EXCEPT !.cb.length = @ + len]
      w2 == IF w1.cb.readBuf_ THEN w1
            ELSE IF w1.cb.length = w1.cb.buf_
                 THEN cancelTimeout(setReadCB(w1, "null"))
                 ELSE w1
  IN post(w2)

\* readEOF that forgets eof = true.
readEOF_NoFlag(w) == post(cancelTimeout(setReadCB(w, "null")))

readEOF(w) ==
  post([cancelTimeout(setReadCB(w, "null")) EXCEPT !.cb.eof = TRUE])

readErr(w) ==
  post([cancelTimeout(setReadCB(w, "null")) EXCEPT !.cb.error_ = "ReadFailed"])

\* timeoutExpired that posts without recording the timeout error.
timeoutExpired_NoError(w) ==
  LET w1 == setReadCB(w, "null")
  IN IF w1.cb.length = 0 THEN post(w1) ELSE w1

\* timeoutExpired without the length == 0 test.
timeoutExpired_Always(w) ==
  post([setReadCB(w, "null") EXCEPT !.cb.error_ = "ReadTimedOut"])

\* timeoutExpired that records the timeout but does not post.
timeoutExpired_NoPost(w) ==
  LET w1 == setReadCB(w, "null")
  IN IF w1.cb.length = 0
     THEN [w1 EXCEPT !.cb.error_ = "ReadTimedOut"]
     ELSE w1

timeoutExpired(w) ==
  LET w1 == setReadCB(w, "null")
  IN IF w1.cb.length = 0
     THEN post([w1 EXCEPT !.cb.error_ = "ReadTimedOut"])
     ELSE w1

ReadCallback_cancel(w) == cancelTimeout(setReadCB(w, "null"))

\* ---- ConnectCallback ------------------------------------------------------
ConnectCallback_cancel(w) == [w EXCEPT !.sk.connectCallback_ = FALSE]

connectSuccess(w) == post(w)

connectErr(w) == post([w EXCEPT !.cb.error_ = "ConnectFailed"])

\* WriteCallback::cancel that leaves the socket and its write alone.
WriteCallback_cancel_Noop(w) == w

\* ---- WriteCallback --------------------------------------------------------
\* closeWithReset: the socket is closed and its pending write dropped.
WriteCallback_cancel(w) ==
  [w EXCEPT !.sk.closed = TRUE, !.sk.writeCallback = FALSE,
            !.sk.readCallback_ = "null"]

writeSuccess(w) == post(w)

\* writeErr that drops the byte count.
writeErr_NoBytes(w, bytes) == post([w EXCEPT !.cb.error = "WriteFailed"])

writeErr(w, bytes) ==
  post([w EXCEPT !.cb.bytesWritten = bytes, !.cb.error = "WriteFailed"])

\* ---- CallbackBase::wait(CancellationToken) --------------------------------
\* The virtual cancel() of the callback of operation o.
cancel(w, o) ==
  LET w1 == CASE o = "connect" -> ConnectCallback_cancel(w)
              [] o \in ReadOps -> ReadCallback_cancel(w)
              [] OTHER -> WriteCallback_cancel(w)
  IN [w1 EXCEPT !.obs.cancels = @ + 1]

\* wait() whose early check yields co_cancelled without cancel().
WaitEnter_NoCancel(w, o, cancelled) ==
  IF cancelled THEN w
  ELSE [w EXCEPT !.obs.suspended = TRUE]

\* Entry of wait(): cancel() and co_cancelled when the token is already
\* cancelled; otherwise the observer is subscribed and the call suspends
\* on the baton (never posted yet at this point).
WaitEnter(w, o, cancelled) ==
  IF cancelled THEN cancel(w, o)
  ELSE [w EXCEPT !.obs.suspended = TRUE]

\* wait() that yields co_cancelled after the await without cancel().
WaitResume_NoCancel(w, o, cancelled) == w

\* wait() that calls cancel() after the await whatever the token says.
WaitResume_AlwaysCancel(w, o, cancelled) == cancel(w, o)

\* After the baton await: cancel() when the token is cancelled by now.
WaitResume(w, o, cancelled) == IF cancelled THEN cancel(w, o) ELSE w

\* wait() without the second isCancellationRequested() check.
WaitRet_NoRecheck(cancelled) == "unit"

\* The Try returned by co_awaitTry(cb.wait(token)).
WaitRet(cancelled) == IF cancelled THEN "cancelled" ELSE "unit"

\* The observer subscribed by wait(): this->post().
CancellationCallback(w) == [post(w) EXCEPT !.obs.observerFired = TRUE]

\* ---- Socket::read ---------------------------------------------------------
\* deferredReadEOF_ = (cb.length > 0)
DeferredEOF_NoEOF(c) == c.length > 0

\* deferredReadEOF_ = cb.eof
DeferredEOF_AnyEOF(c) == c.eof

\* deferredReadEOF_ = (cb.eof && cb.length > 0)
DeferredEOF(c) == c.eof /\ c.length > 0

\* A read that returns the bytes it has before looking at cb.error().
ReadOutcome_DataFirst(waitRet, c) ==
  IF waitRet = "cancelled" THEN Cancelled
  ELSE IF c.length > 0 THEN Bytes(c.length)
  ELSE IF c.error_ # "none" THEN Failure(c.error_)
  ELSE Bytes(c.length)

\* The result of a resumed read.
ReadOutcome(waitRet, c) ==
  IF waitRet = "cancelled" THEN Cancelled
  ELSE IF c.error_ # "none" THEN Failure(c.error_)
  ELSE Bytes(c.length)

\* A success path that leaves the callback installed.
ReadComplete_Keep(w) == w

\* socket_->setReadCB(nullptr) on the success path.
ReadComplete(w) == setReadCB(w, "null")

\* Both overloads of Socket::read up to the suspension.
ReadBody(o, size, growing, timeout) ==
  /\ pc = "idle"
  /\ connected
  /\ op' = o
  /\ args' = [size |-> size, timeout |-> timeout, info |-> FALSE]
  /\ UNCHANGED <<connected, cancelRequested, writeInfo, lastRead>>
  /\ IF deferredReadEOF_
     THEN /\ deferredReadEOF_' = FALSE
          /\ result' = Bytes(0)
          /\ pc' = "done"
          /\ cb' = NewCallback
          /\ socket_' = socket_
          /\ obs' = [NewObs EXCEPT !.preCancel = cancelRequested,
                                   !.shortCircuit = TRUE]
     ELSE LET w0 == [World EXCEPT !.obs =
                       [NewObs EXCEPT !.preCancel = cancelRequested]]
              w1 == ReadCallbackCtor(w0, size, growing, timeout)
              w2 == [setReadCB(w1, "cb") EXCEPT !.obs.regs = @ + 1]
              w3 == WaitEnter(w2, o, cancelRequested)
          IN /\ Apply(w3)
             /\ deferredReadEOF_' = deferredReadEOF_
             /\ IF cancelRequested
                THEN pc' = "done" /\ result' = Cancelled
                ELSE pc' = "waiting" /\ result' = NoResult

\* Socket::read(MutableByteRange, timeout)
Read ==
  \E size \in 1..MaxBuf, timeout \in 0..MaxTimeout :
    ReadBody("read", size, FALSE, timeout)

\* Socket::read(IOBufQueue&, minReadSize, newAllocationSize, timeout)
ReadQueue ==
  \E timeout \in 0..MaxTimeout : ReadBody("readQ", 0, TRUE, timeout)

\* A read resumes: lines after co_awaitTry.
ResumeRead ==
  /\ pc = "waiting"
  /\ op \in ReadOps
  /\ cb.baton_
  /\ LET w1 == WaitResume(World, op, cancelRequested)
         r == ReadOutcome(WaitRet(cancelRequested), w1.cb)
     IN IF r.kind = "bytes"
        THEN /\ Apply(ReadComplete(w1))
             /\ deferredReadEOF_' = DeferredEOF(w1.cb)
             /\ result' = r
        ELSE /\ Apply(w1)
             /\ deferredReadEOF_' = deferredReadEOF_
             /\ result' = r
  /\ pc' = "done"
  /\ UNCHANGED <<op, args, connected, cancelRequested, writeInfo, lastRead>>

\* ---- Socket::connect ------------------------------------------------------
\* connect that does not look at cb.error().
ConnectOutcome_IgnoreError(waitRet, c) ==
  IF waitRet = "cancelled" THEN Cancelled ELSE SocketValue

\* The result of a resumed connect.
ConnectOutcome(waitRet, c) ==
  IF waitRet = "cancelled" THEN Cancelled
  ELSE IF c.error_ # "none" THEN Failure(c.error_)
  ELSE SocketValue

\* Socket::connect up to the suspension, and its co_yield when the token
\* is already cancelled.
Connect ==
  \E timeout \in 0..MaxTimeout :
    /\ pc = "idle"
    /\ ~connected
    /\ op' = "connect"
    /\ args' = [size |-> 0, timeout |-> timeout, info |-> FALSE]
    /\ LET w0 == [cb |-> NewCallback,
                  sk |-> NewSocket,
                  obs |-> [NewObs EXCEPT !.preCancel = cancelRequested]]
           w1 == setReadCB(w0, "null")
           w2 == [w1 EXCEPT !.sk.connectCallback_ = TRUE,
                            !.obs.issues = @ + 1]
           w3 == WaitEnter(w2, "connect", cancelRequested)
       IN /\ Apply(w3)
          /\ IF cancelRequested
             THEN /\ pc' = "done"
                  /\ result' = ConnectOutcome(WaitRet(TRUE), w3.cb)
             ELSE /\ pc' = "waiting"
                  /\ result' = NoResult
    /\ UNCHANGED <<connected, deferredReadEOF_, cancelRequested, writeInfo,
                   lastRead>>

ResumeConnect ==
  /\ pc = "waiting"
  /\ op = "connect"
  /\ cb.baton_
  /\ LET w1 == WaitResume(World, op, cancelRequested)
         r == ConnectOutcome(WaitRet(cancelRequested), w1.cb)
     IN /\ Apply(w1)
        /\ result' = r
        /\ connected' = (r.kind = "socket")
  /\ pc' = "done"
  /\ UNCHANGED <<op, args, deferredReadEOF_, cancelRequested, writeInfo,
                 lastRead>>

\* ---- Socket::write --------------------------------------------------------
\* The result of a write after co_awaitTry.
WriteOutcome(waitRet, c) ==
  IF waitRet = "cancelled" THEN Cancelled
  ELSE IF c.error # "none" THEN Failure(c.error)
  ELSE UnitValue

\* writeInfo->bytesWritten after the call: set on both error paths when
\* writeInfo is not null, untouched otherwise.
WriteInfoAfter(waitRet, c, info, old) ==
  IF waitRet = "cancelled" THEN (IF info THEN c.bytesWritten ELSE old)
  ELSE IF c.error # "none" THEN (IF info THEN c.bytesWritten ELSE old)
  ELSE old

\* Both overloads of Socket::write up to the suspension.  setSendTimeout
\* only configures the transport: a send timeout arrives as writeErr.
WriteBody(o, size, timeout, info) ==
  /\ pc = "idle"
  /\ connected
  /\ op' = o
  /\ args' = [size |-> size, timeout |-> timeout, info |-> info]
  /\ LET w0 == [World EXCEPT !.cb = NewCallback,
                  !.obs = [NewObs EXCEPT !.preCancel = cancelRequested]]
         w1 == [w0 EXCEPT !.sk.writeCallback = TRUE, !.obs.issues = @ + 1]
         w2 == WaitEnter(w1, o, cancelRequested)
     IN /\ Apply(w2)
        /\ IF cancelRequested
           THEN /\ pc' = "done"
                /\ result' = WriteOutcome(WaitRet(TRUE), w2.cb)
                /\ writeInfo' =
                     WriteInfoAfter(WaitRet(TRUE), w2.cb, info, writeInfo)
           ELSE /\ pc' = "waiting"
                /\ result' = NoResult
                /\ writeInfo' = writeInfo
  /\ UNCHANGED <<connected, deferredReadEOF_, cancelRequested, lastRead>>

\* Socket::write(ByteRange, timeout, WriteInfo*)
Write ==
  \E size \in 1..MaxWrite, timeout \in 0..MaxTimeout, info \in BOOLEAN :
    WriteBody("write", size, timeout, info)

\* Socket::write(IOBufQueue&, timeout, WriteInfo*)
WriteQueue ==
  \E size \in 1..MaxWrite, timeout \in 0..MaxTimeout, info \in BOOLEAN :
    WriteBody("writeQ", size, timeout, info)

ResumeWrite ==
  /\ pc = "waiting"
  /\ op \in WriteOps
  /\ cb.baton_
  /\ LET w1 == WaitResume(World, op, cancelRequested)
     IN /\ Apply(w1)
        /\ result' = WriteOutcome(WaitRet(cancelRequested), w1.cb)
        /\ writeInfo' = WriteInfoAfter(WaitRet(cancelRequested), w1.cb,
                                       args.info, writeInfo)
  /\ pc' = "done"
  /\ UNCHANGED <<op, args, connected, deferredReadEOF_, cancelRequested,
                 lastRead>>

\* ---- reactor events while the call is suspended ---------------------------
EventFrame ==
  /\ pc = "waiting"
  /\ UNCHANGED <<pc, op, args, connected, deferredReadEOF_, cancelRequested,
                 result, writeInfo, lastRead>>

\* The transport reports the connect; it drops the callback first.
OnConnectSuccess ==
  /\ EventFrame
  /\ socket_.connectCallback_
  /\ Apply(connectSuccess([World EXCEPT !.sk.connectCallback_ = FALSE,
                                        !.obs.connEv = "success"]))

OnConnectErr ==
  /\ EventFrame
  /\ socket_.connectCallback_
  /\ Apply(connectErr([World EXCEPT !.sk.connectCallback_ = FALSE,
                                    !.obs.connEv = "error"]))

\* The byte counts the transport may report into the offered window.
Chunks(c) ==
  IF c.readBuf_ THEN {n \in 1..MaxChunk : c.length + n <= MaxLen}
  ELSE 1..Min(getReadBuffer(c), MaxChunk)

\* getReadBuffer + readDataAvailable(n)
OnReadData ==
  /\ EventFrame
  /\ socket_.readCallback_ = "cb"
  /\ ~socket_.closed
  /\ ~socket_.atEOF
  /\ \E n \in Chunks(cb) :
       Apply(readDataAvailable([World EXCEPT !.obs.delivered = @ + n], n))

\* One read event of the transport finds n bytes followed by end-of-stream:
\* readDataAvailable(n), then readEOF() if the callback is still installed.
OnReadDataEOF ==
  /\ EventFrame
  /\ socket_.readCallback_ = "cb"
  /\ ~socket_.closed
  /\ ~socket_.atEOF
  /\ \E n \in Chunks(cb) :
       LET w1 == readDataAvailable(
                   [World EXCEPT !.obs.delivered = @ + n, !.obs.dataEof = n,
                                 !.sk.atEOF = TRUE], n)
       IN Apply(IF w1.sk.readCallback_ = "cb" THEN readEOF(w1) ELSE w1)

OnReadEOF ==
  /\ EventFrame
  /\ socket_.readCallback_ = "cb"
  /\ ~socket_.closed
  /\ Apply(readEOF([World EXCEPT !.sk.atEOF = TRUE,
                                 !.obs.eofAtZero = (cb.length = 0)]))

OnReadErr ==
  /\ EventFrame
  /\ socket_.readCallback_ = "cb"
  /\ Apply(readErr([World EXCEPT !.obs.readErr = TRUE]))

\* The timer wheel fires the scheduled callback.
OnTimeout ==
  /\ EventFrame
  /\ cb.isScheduled
  /\ Apply(timeoutExpired(
       [World EXCEPT !.cb.isScheduled = FALSE,
                     !.obs.firedAtZero = (cb.length = 0),
                     !.obs.firedWithData = (cb.length > 0)]))

OnWriteSuccess ==
  /\ EventFrame
  /\ socket_.writeCallback
  /\ ~socket_.closed
  /\ Apply(writeSuccess([World EXCEPT !.sk.writeCallback = FALSE]))

OnWriteErr ==
  /\ EventFrame
  /\ socket_.writeCallback
  /\ \E k \in 0..args.size :
       Apply(writeErr([World EXCEPT !.sk.writeCallback = FALSE,
                                    !.obs.failed = TRUE, !.obs.failK = k], k))

\* The cancellation source is triggered: before the call is issued, or
\* while it is suspended, where the subscribed observer runs.
RequestCancel ==
  /\ pc \in {"idle", "waiting"}
  /\ ~cancelRequested
  /\ cancelRequested' = TRUE
  /\ IF pc = "waiting"
     THEN Apply(CancellationCallback(World))
     ELSE UNCHANGED <<cb, socket_, obs>>
  /\ UNCHANGED <<pc, op, args, connected, deferredReadEOF_, result,
                 writeInfo, lastRead>>

\* The call has returned: its callback goes out of scope, and the caller
\* goes on with a fresh cancellation token.
Return ==
  /\ pc = "done"
  /\ pc' = "idle"
  /\ op' = "none"
  /\ result' = NoResult
  /\ cancelRequested' = FALSE
  /\ cb' = NewCallback
  /\ obs' = NewObs
  /\ socket_' = [socket_ EXCEPT !.readCallback_ =
                   IF @ = "cb" THEN "stale" ELSE @]
  /\ lastRead' =
       IF op \in ReadOps
       THEN [dataEof |-> obs.dataEof,
             clean |-> /\ ~cancelRequested
                       /\ cb.error_ = "none"
                       /\ obs.delivered = obs.dataEof,
             filled |-> ~cb.readBuf_ /\ obs.dataEof = cb.buf_,
             eofAtZero |-> /\ obs.eofAtZero
                           /\ ~cancelRequested
                           /\ cb.error_ = "none",
             kind |-> result.kind,
             bytes |-> result.n,
             eof |-> cb.eof,
             short |-> obs.shortCircuit]
       ELSE lastRead
  /\ UNCHANGED <<args, connected, deferredReadEOF_, writeInfo>>

Init ==
  /\ pc = "idle"
  /\ op = "none"
  /\ args = [size |-> 0, timeout |-> 0, info |-> FALSE]
  /\ connected = FALSE
  /\ deferredReadEOF_ = FALSE
  /\ cancelRequested = FALSE
  /\ cb = NewCallback
  /\ socket_ = NewSocket
  /\ result = NoResult
  /\ writeInfo = 0
  /\ obs = NewObs
  /\ lastRead = NoLastRead

Next ==
  \/ Connect
  \/ Read
  \/ ReadQueue
  \/ Write
  \/ WriteQueue
  \/ OnConnectSuccess
  \/ OnConnectErr
  \/ OnReadData
  \/ OnReadDataEOF
  \/ OnReadEOF
  \/ OnReadErr
  \/ OnTimeout
  \/ OnWriteSuccess
  \/ OnWriteErr
  \/ RequestCancel
  \/ ResumeConnect
  \/ ResumeRead
  \/ ResumeWrite
  \/ Return

Spec == Init /\ [][Next]_vars

\* The timer wheel fires every timeout that stays scheduled, and the
\* executor resumes every coroutine whose baton has been posted.
FairSpec ==
  /\ Spec
  /\ WF_vars(OnTimeout)
  /\ WF_vars(ResumeRead)

\* ---- properties ------------------------------------------------------------
ReadDone == pc = "done" /\ op \in ReadOps

\* The finished read saw one transport event with N bytes and
\* end-of-stream, no other data, no error and no cancellation.
DataThenEOFOnly ==
  /\ obs.dataEof > 0
  /\ obs.delivered = obs.dataEof
  /\ ~cancelRequested
  /\ cb.error_ = "none"

\* The read in progress or just finished was short-circuited by the
\* deferred end-of-stream: no registration, no timer, no suspension.
ShortCircuited ==
  /\ pc = "done"
  /\ result = Bytes(0)
  /\ obs.regs = 0
  /\ obs.arms = 0
  /\ ~obs.suspended

\* C1 (as amended): a read that gets N bytes and end-of-stream in one
\* transport event, with N below the capacity of a fixed buffer or any N
\* in the growing-buffer form, returns N and the following read returns 0
\* without registering, arming a timer or suspending; when N fills the
\* fixed buffer the call returns N, the bit stays clear and the following
\* read registers with the transport.
C1_DataThenEOF ==
  /\ (ReadDone /\ DataThenEOFOnly)
       => /\ result = Bytes(obs.dataEof)
          /\ deferredReadEOF_ = (cb.readBuf_ \/ obs.dataEof < cb.buf_)
  /\ (pc \in {"waiting", "done"} /\ op \in ReadOps
        /\ lastRead.clean /\ lastRead.dataEof > 0)
       => IF lastRead.filled THEN obs.regs = 1 ELSE ShortCircuited

C1_Witness ==
  /\ ReadDone
  /\ op = "read"
  /\ lastRead.clean
  /\ lastRead.dataEof > 0
  /\ ~lastRead.filled
  /\ ShortCircuited

\* C1 as stated: for every N up to the capacity, the read following a
\* read that got N bytes and end-of-stream in one event is short-circuited.
C1_Original ==
  (pc \in {"waiting", "done"} /\ op \in ReadOps
     /\ lastRead.clean /\ lastRead.dataEof > 0) => ShortCircuited

\* C2: a read that gets end-of-stream with zero bytes (no error, no
\* cancellation) returns 0 with deferredReadEOF_ false, and the next read
\* registers with the transport.
C2_EOFAtZero ==
  /\ (ReadDone /\ obs.eofAtZero /\ ~cancelRequested /\ cb.error_ = "none")
       => (result = Bytes(0) /\ ~deferredReadEOF_)
  /\ (pc \in {"waiting", "done"} /\ op \in ReadOps /\ lastRead.eofAtZero)
       => (obs.regs = 1 /\ ~obs.shortCircuit)

C2_Witness ==
  /\ pc = "waiting"
  /\ op \in ReadOps
  /\ lastRead.eofAtZero
  /\ socket_.readCallback_ = "cb"

\* A transport outcome is recorded in the callback.
OutcomeRecorded ==
  \/ cb.error_ # "none"
  \/ cb.error # "none"
  \/ cb.length > 0
  \/ cb.eof
  \/ obs.connEv = "success"

\* C3: a suspended call that finds cancellation requested when it resumes
\* ends with Cancelled, whatever outcome the callback has recorded.
C3_CancelWins ==
  (pc = "done" /\ obs.suspended /\ cancelRequested) => result = Cancelled

C3_Witness ==
  /\ pc = "done"
  /\ obs.suspended
  /\ cancelRequested
  /\ OutcomeRecorded
  /\ result = Cancelled

\* C4 (as amended): when cancellation is requested before the call, the
\* call never suspends; a read that finds deferredReadEOF_ set returns 0
\* without touching the transport, every other call issues its transport
\* operation once, undoes it through cancel() and ends with Cancelled.
C4_PreCancelled ==
  (pc = "done" /\ obs.preCancel) =>
    /\ ~obs.suspended
    /\ obs.posts = 0
    /\ IF obs.shortCircuit
       THEN /\ result = Bytes(0)
            /\ obs.regs = 0 /\ obs.arms = 0 /\ obs.issues = 0
            /\ obs.cancels = 0
       ELSE /\ result = Cancelled
            /\ obs.cancels = 1
            /\ socket_.readCallback_ # "cb"
            /\ ~cb.isScheduled
            /\ ~socket_.connectCallback_
            /\ ~socket_.writeCallback
            /\ op \in ReadOps =>
                 /\ obs.regs = 1
                 /\ obs.arms = (IF args.timeout > 0 THEN 1 ELSE 0)
            /\ op \notin ReadOps => obs.issues = 1
            /\ op \in WriteOps => socket_.closed

C4_Witness ==
  /\ pc = "done"
  /\ obs.preCancel
  /\ op = "read"
  /\ result = Cancelled
  /\ obs.regs = 1
  /\ obs.arms = 1
  /\ obs.cancels = 1

\* C4 as stated: a call issued with cancellation already requested ends
\* with Cancelled and never invokes the transport.
C4_Original ==
  (pc = "done" /\ obs.preCancel) =>
    /\ result = Cancelled
    /\ obs.regs = 0
    /\ obs.arms = 0
    /\ obs.issues = 0

\* C5: a read with a timeout whose timer expires while zero bytes have
\* been read, without cancellation, has its callback deregistered and ends
\* with ReadTimedOut.
C5_TimeoutAtZero ==
  /\ (pc = "waiting" /\ obs.firedAtZero)
       => (socket_.readCallback_ = "null" /\ cb.baton_)
  /\ (ReadDone /\ args.timeout > 0 /\ ~cancelRequested /\ obs.firedAtZero)
       => (result = Failure("ReadTimedOut") /\ socket_.readCallback_ = "null")

C5_Witness ==
  /\ ReadDone
  /\ args.timeout > 0
  /\ ~cancelRequested
  /\ obs.firedAtZero
  /\ result = Failure("ReadTimedOut")

\* C6: a read with a timeout whose timer fires after at least one byte
\* was delivered, without cancellation, records no error and returns the
\* number of bytes delivered.
C6_TimeoutAfterData ==
  (ReadDone /\ args.timeout > 0 /\ ~cancelRequested /\ obs.firedWithData)
    => /\ cb.error_ = "none"
       /\ obs.delivered > 0
       /\ result = Bytes(obs.delivered)

C6_Witness ==
  /\ ReadDone
  /\ op = "read"
  /\ ~cancelRequested
  /\ obs.firedWithData
  /\ cb.length < cb.buf_
  /\ result = Bytes(obs.delivered)

\* C7: a write with a writeInfo that ends with an error or Cancelled has
\* writeInfo.bytesWritten equal to the byte count of the failure event
\* (0 without one); a failure after k bytes without cancellation ends with
\* WriteFailed.
C7_WriteInfo ==
  (pc = "done" /\ op \in WriteOps /\ args.info
     /\ result.kind \in {"error", "cancelled"})
    => /\ writeInfo = (IF obs.failed THEN obs.failK ELSE 0)
       /\ (obs.failed /\ ~cancelRequested) => result = Failure("WriteFailed")

C7_Witness ==
  /\ pc = "done"
  /\ op \in WriteOps
  /\ args.info
  /\ obs.failed
  /\ obs.failK > 0
  /\ result = Failure("WriteFailed")
  /\ writeInfo = obs.failK

\* C8: connect produces a Socket exactly when the transport reported
\* success and cancellation is not requested; otherwise it ends with an
\* error or Cancelled and no Socket exists.
C8_ConnectSocket ==
  (pc = "done" /\ op = "connect") =>
    /\ (result.kind = "socket") = (obs.connEv = "success" /\ ~cancelRequested)
    /\ connected = (result.kind = "socket")
    /\ result.kind \in {"socket", "error", "cancelled"}
    /\ (obs.connEv = "error" /\ ~cancelRequested)
         => result = Failure("ConnectFailed")

C8_Witness ==
  /\ pc = "done"
  /\ op = "connect"
  /\ obs.connEv = "error"
  /\ ~cancelRequested
  /\ result = Failure("ConnectFailed")
  /\ ~connected

\* C9 as stated: the completion signal of a callback instance is posted
\* at most once, and exactly once when the call resumes.
C9_PostedExactlyOnce ==
  /\ obs.posts <= 1
  /\ (pc = "done" /\ obs.suspended) => obs.posts = 1

\* C10: when a read finishes, whatever its outcome, the socket's read
\* callback no longer points at the callback of that call.
C10_Deregistered ==
  /\ ReadDone => socket_.readCallback_ = "null"
  /\ socket_.readCallback_ # "stale"

C10_Witness ==
  /\ ReadDone
  /\ op = "read"
  /\ result.kind = "bytes"
  /\ cb.length > 0
  /\ cb.length < cb.buf_
  /\ ~cb.eof
  /\ ~obs.firedWithData

\* The transport holds a registration for the callback of the call.
Registered ==
  \/ socket_.readCallback_ = "cb"
  \/ socket_.connectCallback_
  \/ socket_.writeCallback

\* C11 (as amended): the cancellation observer only posts the completion
\* signal; cancel() has not run while the call is still suspended, and
\* runs once after the call has resumed, which then ends with Cancelled.
C11_PostThenCancel ==
  /\ (pc = "waiting" /\ obs.observerFired) => (cb.baton_ /\ obs.cancels = 0)
  /\ (pc = "done" /\ obs.observerFired)
       => (obs.cancels = 1 /\ result = Cancelled /\ ~Registered
           /\ ~cb.isScheduled)

C11_Witness ==
  /\ pc = "done"
  /\ obs.observerFired
  /\ obs.posts = 1
  /\ obs.cancels = 1
  /\ op \in ReadOps
  /\ args.timeout > 0
  /\ result = Cancelled

\* C11 as stated: whenever the observer has posted the completion signal,
\* cancel() has already run.
C11_Original == obs.observerFired => obs.cancels > 0

\* C12: cancel() runs at most once per call, never in a call whose token
\* is not cancelled, and exactly once in a call that went to the transport
\* and found cancellation requested.
C12_CancelOnce ==
  /\ obs.cancels <= 1
  /\ obs.cancels > 0 => cancelRequested
  /\ (pc = "done" /\ cancelRequested /\ ~obs.shortCircuit) => obs.cancels = 1

C12_Witness ==
  /\ pc = "done"
  /\ obs.suspended
  /\ obs.observerFired
  /\ obs.posts = 1
  /\ op \in WriteOps
  /\ socket_.closed
  /\ obs.cancels = 1

\* C13 (as amended): a cancelled operation resumes on the signal posted
\* by the cancellation observer alone, while the transport still holds the
\* registration of its callback; cancel() removes that registration after
\* the resume, so that no finished call leaves a registration behind.
C13_ResumeThenAbort ==
  /\ (pc = "waiting" /\ obs.observerFired /\ obs.posts = 1)
       => (cb.baton_ /\ Registered)
  /\ pc = "done" => (~Registered /\ socket_.readCallback_ # "stale")

C13_Witness ==
  /\ pc = "done"
  /\ op = "connect"
  /\ obs.observerFired
  /\ obs.posts = 1
  /\ result = Cancelled
  /\ ~Registered

\* C13 as stated: a call never resumes on a signal posted by the
\* cancellation path alone while the transport still holds a registration
\* for its callback.
C13_Original ==
  [][(pc = "waiting" /\ pc' = "done" /\ obs.observerFired /\ obs.posts = 1)
       => ~Registered]_vars

\* C14 as stated: once a transport or timer event has posted the
\* completion signal, the callback is deregistered and its timer is not
\* armed, and until the call resumes its recorded outcome does not change.
C14_FirstEventOnly ==
  [][(pc = "waiting" /\ cb.baton_ /\ ~obs.observerFired)
       => /\ ~Registered
          /\ ~cb.isScheduled
          /\ pc' = "waiting" =>
               /\ cb'.length = cb.length
               /\ cb'.eof = cb.eof
               /\ cb'.error_ = cb.error_
               /\ cb'.bytesWritten = cb.bytesWritten
               /\ cb'.error = cb.error]_vars

\* C15: a transport error reported to the callback of a call that resumes
\* without cancellation is the result of the call, also for a read that
\* had data delivered before the error.
C15_ErrorSurfaces ==
  (pc = "done" /\ ~cancelRequested) =>
    /\ obs.connEv = "error" => result = Failure("ConnectFailed")
    /\ obs.readErr => result = Failure("ReadFailed")
    /\ obs.failed => result = Failure("WriteFailed")

C15_Witness ==
  /\ ReadDone
  /\ ~cancelRequested
  /\ obs.readErr
  /\ obs.delivered > 0
  /\ cb.length = obs.delivered
  /\ result = Failure("ReadFailed")

\* C16: between calls deferredReadEOF_ is set exactly when the last
\* finished read succeeded with bytes and saw end-of-stream; the read that
\* consumes the bit clears it and is never followed by a second
\* short-circuited read; a read that ends with an error, a timeout or
\* Cancelled leaves the bit clear.
C16_DeferredBit ==
  /\ pc = "idle" =>
       deferredReadEOF_ =
         (lastRead.kind = "bytes" /\ lastRead.bytes > 0 /\ lastRead.eof)
  /\ (ReadDone /\ obs.shortCircuit) => (~deferredReadEOF_ /\ ~lastRead.short)
  /\ (ReadDone /\ result.kind \in {"error", "cancelled"}) => ~deferredReadEOF_

C16_Witness ==
  /\ pc = "idle"
  /\ lastRead.short
  /\ ~deferredReadEOF_
  /\ socket_.atEOF

\* C17: in a fixed-buffer read the running length never exceeds the
\* capacity, the window offered is what is left of the buffer, the
\* callback is uninstalled and its timer cancelled once the buffer is
\* full, and a successful read returns the sum of the byte counts of the
\* data events of the call.
C17_FixedBuffer ==
  (op = "read" /\ pc \in {"waiting", "done"} /\ ~obs.shortCircuit) =>
    /\ cb.length <= cb.buf_
    /\ cb.length = obs.delivered
    /\ getReadBuffer(cb) + cb.length = cb.buf_
    /\ cb.length = cb.buf_ =>
         (socket_.readCallback_ = "null" /\ ~cb.isScheduled)
    /\ (pc = "done" /\ result.kind = "bytes") => result.n = obs.delivered

C17_Witness ==
  /\ pc = "done"
  /\ op = "read"
  /\ obs.posts > 1
  /\ obs.delivered = cb.buf_
  /\ ~cb.eof
  /\ result = Bytes(cb.buf_)

C19_ReadFinishes ==
  (pc = "waiting" /\ op \in ReadOps /\ args.timeout > 0)
    ~> (pc = "done" /\ op \in ReadOps
          /\ result.kind \in {"bytes", "error", "cancelled"})

C19_Witness ==
  /\ ReadDone
  /\ args.timeout > 0
  /\ ~cancelRequested
  /\ obs.firedAtZero
  /\ obs.posts = 1
  /\ obs.delivered = 0
  /\ ~obs.eofAtZero
  /\ result = Failure("ReadTimedOut")

====
